---- MODULE Spec2Model ----
(***************************************************************************)
(* Model of the ETL pipeline: Extract.py (fetch with cache fallback),      *)
(* Load.py (environment configuration, connection with database            *)
(* auto-creation, transactional drop/create/insert load) and main.py       *)
(* (run_pipeline).                                                         *)
(***************************************************************************)
EXTENDS Integers, Sequences, FiniteSets, TLC

(***************************************************************************)
(* Bounds of the model.                                                    *)
(***************************************************************************)
\* longest DataFrame (in rows) handed to load_dataframes
MaxRows == 2
\* number of consecutive load_dataframes calls a caller makes
MaxCalls == 2
\* number of consecutive set_postgres_env calls a caller makes
MaxSetCalls == 2

VARIABLES
    store,      \* committed content of the destination database
    work,       \* the open transaction's view of the database
    tables,     \* load_dataframes: the `tables` argument, in dict order
    idx,        \* load_dataframes: position of the loop over tables.items()
    lpc,        \* load_dataframes: control position
    result,     \* load_dataframes: how the last call ended
    pre,        \* the store when the current call of load_dataframes began
    writes,     \* DROP/CREATE/INSERT statements issued by the current call
    probeOk,    \* outcome of the current call's check_connection
    prevOk,     \* the call just before the current one returned normally
    calls,      \* load_dataframes calls made so far
    failAt,     \* where the current call raised: <<index, statement>>
    errText,    \* load_dataframes: str() of the exception the call raised
    env,        \* os.environ, the variables the program reads
    prefix,     \* the `prefix` argument of build_connection_from_env
    dbExists,   \* the server has the target database
    fault,      \* what is wrong with the server or the credentials
    cpc,        \* per caller: position in build_connection_from_env
    cerr,       \* per caller: the exception the call raised
    lastErr,    \* per caller: last_error, the first connection failure
    targetAttempts, \* per caller: connection attempts to the target database
    adminAttempts,  \* per caller: connection attempts to the "postgres" database
    adminOpen,  \* per caller: the administrative connection is open
    createStmts,    \* per caller: CREATE DATABASE statements issued
    swallowed,  \* per caller: a DuplicateDatabase error was swallowed
    created,    \* how many times the target database has been created
    openConns,  \* per caller: connections to the target database held open
    cache,      \* the CSV cache file of each dataset
    extracted,  \* extract_all: the DataFrames fetched so far
    fetched,    \* per dataset: how its request ended and whether a cache existed
    epos,       \* extract_all: position of the loop over API_ENDPOINTS
    ppc,        \* run_pipeline: control position
    perr,       \* run_pipeline: the exception it let through
    transformed,    \* run_pipeline: the dict transform_dataframes returned
    acquired,   \* run_pipeline: connections it has been handed
    cmd,        \* main.py: the read-only command that is running
    clipc,      \* main.py: the command's control position
    envBefore,  \* os.environ when set_postgres_env was last called
    applied,    \* the dict the last call of set_postgres_env returned
    setCalls,   \* set_postgres_env calls made by the caller
    setArg      \* the arguments of the last call of set_postgres_env

loadVars == <<store, work, tables, idx, lpc, result, pre, writes, probeOk,
              prevOk, calls, failAt, errText>>

connVars == <<env, prefix, dbExists, fault, cpc, cerr, lastErr, targetAttempts,
              adminAttempts, adminOpen, createStmts, swallowed, created, openConns>>

pipeVars == <<cache, extracted, fetched, epos, ppc, perr, transformed, acquired>>

cliVars == <<cmd, clipc>>

setEnvVars == <<envBefore, applied, setCalls, setArg>>

vars == <<loadVars, connVars, pipeVars, cliVars, setEnvVars>>

\* what load_dataframes, and what connecting, leaves alone
notLoadVars == <<connVars, pipeVars, cliVars, setEnvVars>>
notConnVars == <<loadVars, pipeVars, cliVars, setEnvVars>>
notPipeVars == <<cliVars, setEnvVars>>

(***************************************************************************)
(* DataFrames and database tables.                                         *)
(***************************************************************************)
TableNames == {"orders", "order_summary"}

\* all sequences over S of length at most n
SeqsUpTo(S, n) == UNION {[1..k -> S] : k \in 0..n}

\* a table that does not exist
NoTable == [exists |-> FALSE, cols |-> <<>>, rows |-> <<>>]

\* Load.py _DTYPE_TO_SQL
DtypeToSql ==
    [d \in {"int64", "Int64", "float64", "bool", "datetime64[ns]"} |->
        CASE d = "int64" -> "BIGINT"
          [] d = "Int64" -> "BIGINT"
          [] d = "float64" -> "DOUBLE PRECISION"
          [] d = "bool" -> "BOOLEAN"
          [] d = "datetime64[ns]" -> "TIMESTAMP"]

\* Load.py _column_sql_type
ColumnSqlType(dtype) ==
    IF dtype \in DOMAIN DtypeToSql THEN DtypeToSql[dtype] ELSE "TEXT"

\* cell values: numbers (fixed point), strings, pandas' missing values and
\* Timestamp, and what the database driver is handed (datetime, NULL)
Num(x) == [k |-> "num", n |-> x, s |-> ""]
Str(x) == [k |-> "str", n |-> 0, s |-> x]
Timestamp(x) == [k |-> "Timestamp", n |-> 0, s |-> x]
NaN == [k |-> "NaN", n |-> 0, s |-> ""]
NaT == [k |-> "NaT", n |-> 0, s |-> ""]
None == [k |-> "None", n |-> 0, s |-> ""]

\* pandas isna
IsNa(value) == value.k \in {"NaN", "NaT", "None"}

\* Load.py _normalize_cell: a Timestamp becomes a datetime, pandas' missing
\* values become None (SQL NULL), everything else is passed through
NormalizeCell(value) ==
    CASE value.k = "Timestamp" -> [value EXCEPT !.k = "datetime"]
      [] IsNa(value) -> None
      [] OTHER -> value

\* pandas DataFrame.empty: any axis of length 0
IsEmpty(frame) == Len(frame.cols) = 0 \/ Len(frame.rows) = 0

\* the first k rows of a frame
FirstRows(frame, k) == [frame EXCEPT !.rows = SubSeq(frame.rows, 1, k)]

\* a drop that takes every table of the database with it
DropAllTables(w, name) == [t \in DOMAIN w |-> NoTable]

\* DROP TABLE IF EXISTS name CASCADE
DropTable(w, name) == [w EXCEPT ![name] = NoTable]

\* CREATE TABLE name (...): one column per DataFrame column, or a lone
\* serial id when the DataFrame has no columns
CreateTable(w, name, frame) ==
    [w EXCEPT ![name] =
        [exists |-> TRUE,
         cols |-> IF Len(frame.cols) = 0
                  THEN <<[name |-> "id", type |-> "SERIAL PRIMARY KEY"]>>
                  ELSE [i \in 1..Len(frame.cols) |->
                           [name |-> frame.cols[i].name,
                            type |-> ColumnSqlType(frame.cols[i].dtype)]],
         rows |-> <<>>]]

\* what a CREATE TABLE IF NOT EXISTS without the DROP would leave
EnsureTableIfNotExists(w, name, frame) ==
    IF w[name].exists THEN w ELSE CreateTable(w, name, frame)

\* Load.py _ensure_table: DROP then CREATE
EnsureTable(w, name, frame) == CreateTable(DropTable(w, name), name, frame)

\* Load.py _insert_rows: nothing for an empty frame, else one INSERT per row
\* with every cell normalised
InsertRows(w, name, frame) ==
    IF IsEmpty(frame)
    THEN w
    ELSE [w EXCEPT ![name].rows =
            @ \o [i \in 1..Len(frame.rows) |->
                    [j \in 1..Len(frame.rows[i]) |->
                        NormalizeCell(frame.rows[i][j])]]]

(***************************************************************************)
(* Inputs of load_dataframes.                                              *)
(***************************************************************************)
LoadColLists == {<<>>, <<[name |-> "order_id", dtype |-> "float64"]>>}
LoadCells == {Num(1), NaN}

Frames ==
    UNION {{[cols |-> c, rows |-> r] :
              r \in SeqsUpTo([1..Len(c) -> LoadCells], MaxRows)} :
           c \in LoadColLists}

\* a dict of DataFrames: pairs with distinct names, in insertion order
Mappings ==
    {m \in SeqsUpTo([name : TableNames, frame : Frames], Cardinality(TableNames)) :
        \A i, j \in 1..Len(m) : i # j => m[i].name # m[j].name}

\* tables an earlier run may have left behind
InitialTables ==
    {NoTable} \cup
    {EnsureTable([t \in {"x"} |-> NoTable], "x", f)["x"] :
        f \in {g \in Frames : Len(g.rows) = 0}} \cup
    {[exists |-> TRUE,
      cols |-> <<[name |-> "order_id", type |-> "BIGINT"]>>,
      rows |-> << <<Num(7)>> >>]}

(***************************************************************************)
(* load_dataframes.                                                        *)
(***************************************************************************)
\* psycopg2's text when the server goes away during a statement
ConnectionLost == <<"server", "closed", "the", "connection", "unexpectedly">>

\* what the exception of a failed DROP, CREATE or INSERT of table `name` may
\* say: load_dataframes passes the driver's exception on as it is, and the
\* server names the table in some of its messages only
StatementErrors(name) ==
    {ConnectionLost, <<"permission", "denied", "for", "table", name>>}

\* the caller invokes load_dataframes(connection, d)
BeginLoad(d) ==
    /\ tables' = d
    /\ idx' = 1
    /\ lpc' = "probe"
    /\ result' = "none"
    /\ pre' = store
    /\ work' = store
    /\ writes' = 0
    /\ probeOk' = TRUE
    /\ failAt' = <<0, "none">>
    /\ errText' = <<>>
    /\ UNCHANGED store

\* a rollback that keeps what the transaction had written so far
RollbackKeepsWrites == store' = work /\ UNCHANGED work

\* connection.__exit__ with an exception: ROLLBACK
Rollback == work' = store /\ UNCHANGED store

\* connection.__exit__ without an exception: COMMIT
Commit == store' = work /\ UNCHANGED work

\* a probe whose failure is not acted on
ProbeResultIgnored(ok) ==
    /\ lpc = "probe"
    /\ probeOk' = ok
    /\ lpc' = IF Len(tables) = 0 THEN "commit" ELSE "ensure"
    /\ UNCHANGED <<store, work, tables, idx, result, pre, writes, prevOk, calls, failAt, errText>>

\* Load.py 171-172: check_connection, and OperationalError when it fails
Probe(ok) ==
    /\ lpc = "probe"
    /\ probeOk' = ok
    /\ IF ok
       THEN /\ lpc' = IF Len(tables) = 0 THEN "commit" ELSE "ensure"
            /\ UNCHANGED result
       ELSE /\ lpc' = "raised"
            /\ result' = "OperationalError"
    /\ errText' = IF ok THEN errText ELSE <<"Database", "connection", "test", "failed">>
    /\ UNCHANGED <<store, work, tables, idx, pre, writes, prevOk, calls, failAt>>

LoadProbe == \E ok \in BOOLEAN : Probe(ok)

\* Load.py 177: _ensure_table succeeds
LoadEnsure ==
    /\ lpc = "ensure"
    /\ work' = EnsureTable(work, tables[idx].name, tables[idx].frame)
    /\ writes' = writes + 2
    /\ lpc' = "insert"
    /\ UNCHANGED <<store, tables, idx, result, pre, probeOk, prevOk, calls, failAt, errText>>

\* Load.py 177: the DROP raises, or the DROP succeeds and the CREATE raises
LoadEnsureRaises ==
    /\ lpc = "ensure"
    /\ \E dropped \in BOOLEAN :
          /\ work' = IF dropped THEN DropTable(work, tables[idx].name) ELSE work
          /\ writes' = writes + (IF dropped THEN 2 ELSE 1)
          /\ failAt' = <<idx, IF dropped THEN "create" ELSE "drop">>
    /\ errText' \in StatementErrors(tables[idx].name)
    /\ lpc' = "unwinding"
    /\ UNCHANGED <<store, tables, idx, result, pre, probeOk, prevOk, calls>>

\* Load.py 178: _insert_rows succeeds, and the loop moves on
LoadInsert ==
    /\ lpc = "insert"
    /\ work' = InsertRows(work, tables[idx].name, tables[idx].frame)
    /\ writes' = writes + (IF IsEmpty(tables[idx].frame) THEN 0 ELSE 1)
    /\ idx' = idx + 1
    /\ lpc' = IF idx = Len(tables) THEN "commit" ELSE "ensure"
    /\ UNCHANGED <<store, tables, result, pre, probeOk, prevOk, calls, failAt, errText>>

\* a failing INSERT on a connection in autocommit mode: the DROP, the CREATE
\* and the rows that went in are already committed
LoadInsertRaisesAutocommit ==
    /\ lpc = "insert"
    /\ ~IsEmpty(tables[idx].frame)
    /\ \E k \in 0..(Len(tables[idx].frame.rows) - 1) :
          /\ work' = InsertRows(work, tables[idx].name, FirstRows(tables[idx].frame, k))
          /\ store' = work'
    /\ writes' = writes + 1
    /\ failAt' = <<idx, "insert">>
    /\ errText' \in StatementErrors(tables[idx].name)
    /\ lpc' = "unwinding"
    /\ UNCHANGED <<tables, idx, result, pre, probeOk, prevOk, calls>>

\* Load.py 165: executemany raises after k rows went in
LoadInsertRaises ==
    /\ lpc = "insert"
    /\ ~IsEmpty(tables[idx].frame)
    /\ \E k \in 0..(Len(tables[idx].frame.rows) - 1) :
          work' = InsertRows(work, tables[idx].name, FirstRows(tables[idx].frame, k))
    /\ writes' = writes + 1
    /\ failAt' = <<idx, "insert">>
    /\ errText' \in StatementErrors(tables[idx].name)
    /\ lpc' = "unwinding"
    /\ UNCHANGED <<store, tables, idx, result, pre, probeOk, prevOk, calls>>

\* Load.py 174: leaving `with connection:` normally commits
LoadCommit ==
    /\ lpc = "commit"
    /\ Commit
    /\ lpc' = "returned"
    /\ result' = "ok"
    /\ UNCHANGED <<tables, idx, pre, writes, probeOk, prevOk, calls, failAt, errText>>

\* Load.py 174: the COMMIT itself raises
LoadCommitRaises ==
    /\ lpc = "commit"
    /\ failAt' = <<idx, "commit">>
    /\ errText' = ConnectionLost
    /\ lpc' = "unwinding"
    /\ UNCHANGED <<store, work, tables, idx, result, pre, writes, probeOk, prevOk, calls>>

\* Load.py 174: leaving `with connection:` on an exception rolls back and
\* lets the exception through
LoadUnwind ==
    /\ lpc = "unwinding"
    /\ Rollback
    /\ lpc' = "raised"
    /\ result' = "LoadError"
    /\ UNCHANGED <<tables, idx, pre, writes, probeOk, prevOk, calls, failAt, errText>>

(***************************************************************************)
(* A caller that loads the same mapping repeatedly over one connection.    *)
(***************************************************************************)
CallLoad ==
    /\ lpc \in {"idle", "returned", "raised"}
    /\ calls < MaxCalls
    /\ calls' = calls + 1
    /\ prevOk' = (lpc = "returned")
    /\ BeginLoad(tables)

\* any mapping, loaded into any store an earlier run may have left
LoadInputs ==
    /\ store \in [TableNames -> InitialTables]
    /\ work = store
    /\ tables \in Mappings
    /\ idx = 1
    /\ lpc = "idle"
    /\ result = "none"
    /\ pre = store
    /\ writes = 0
    /\ probeOk = TRUE
    /\ prevOk = FALSE
    /\ calls = 0
    /\ failAt = <<0, "none">>
    /\ errText = <<>>

\* no call of load_dataframes in progress
IdleLoad ==
    /\ work = store
    /\ tables = <<>>
    /\ idx = 1
    /\ lpc = "idle"
    /\ result = "none"
    /\ pre = store
    /\ writes = 0
    /\ probeOk = TRUE
    /\ prevOk = FALSE
    /\ calls = 0
    /\ failAt = <<0, "none">>
    /\ errText = <<>>



(***************************************************************************)
(* Configuration: os.environ and build_connection_from_env.                *)
(***************************************************************************)
\* Load.py 187: the five keys, in the order the code reads them
Keys == <<"USER", "PASSWORD", "HOST", "PORT", "DATABASE">>
KeySet == {Keys[i] : i \in 1..Len(Keys)}

Prefixes == {"POSTGRES", "APP"}

\* f"{prefix}_{key}"
EnvName(p, key) == <<p, key>>
EnvNames == {EnvName(p, key) : p \in Prefixes, key \in KeySet}

\* os.getenv of a variable that is not set
Unset == "<unset>"

\* values a variable of the environment may hold before the program runs
EnvValues(key) ==
    IF key = "PORT" THEN {Unset, "", "5432", "abc"} ELSE {Unset, "", "custom"}

\* int(text) succeeds
IsIntText(text) == text \in {"5432"}

\* Load.py 189: value in (None, "")
IsMissing(value) == value \in {Unset, ""}

\* the subsequence of ks whose variables are missing, in order
RECURSIVE MissingOf(_, _, _)
MissingOf(e, p, ks) ==
    IF ks = <<>>
    THEN <<>>
    ELSE (IF IsMissing(e[EnvName(p, ks[1])]) THEN <<ks[1]>> ELSE <<>>)
         \o MissingOf(e, p, Tail(ks))

\* a report that stops at the first missing variable
MissingFirstOnly(e, p) ==
    IF MissingOf(e, p, Keys) = <<>> THEN <<>> ELSE <<MissingOf(e, p, Keys)[1]>>

\* Load.py 185-189: missing = [key for key, value in env.items() if ...]
Missing(e, p) == MissingOf(e, p, Keys)

\* exceptions: the type, for a connection failure its cause, for a missing
\* configuration the variables the message names, and whether the exception
\* was raised `from` another one
NoError == [type |-> "none", cause |-> "none", names |-> <<>>, chained |-> FALSE]
ValueError(names) ==
    [type |-> "ValueError", cause |-> "none", names |-> names, chained |-> FALSE]
OperationalError(cause) ==
    [type |-> "OperationalError", cause |-> cause, names |-> <<>>, chained |-> FALSE]

(***************************************************************************)
(* The server, as psycopg2.connect sees it.                                *)
(***************************************************************************)
Faults == {"none", "norole", "badpw", "unreachable"}

\* the text of the OperationalError for each cause of a failed connection
Message(cause) ==
    CASE cause = "nodb" -> <<"FATAL:", "database", "etl_db", "does", "not", "exist">>
      [] cause = "norole" -> <<"FATAL:", "role", "etl_user", "does", "not", "exist">>
      [] cause = "badpw" ->
            <<"FATAL:", "password", "authentication", "failed", "for", "user", "etl_user">>
      [] cause = "unreachable" ->
            <<"could", "not", "connect", "to", "server:", "Connection", "refused">>

\* str.lower, word by word
LowerWord(word) ==
    CASE word = "FATAL:" -> "fatal:"
      [] word = "Connection" -> "connection"
      [] OTHER -> word
Lower(text) == [i \in 1..Len(text) |-> LowerWord(text[i])]

\* needle in text
Contains(text, needle) ==
    \E i \in 1..(Len(text) - Len(needle) + 1) :
        SubSeq(text, i, i + Len(needle) - 1) = needle

\* Load.py 223-224: "does not exist" in str(error).lower()
SaysDoesNotExist(cause) ==
    Contains(Lower(Message(cause)), <<"does", "not", "exist">>)

\* psycopg2.connect(dbname=database, ...): "ok" or the cause of the failure
ConnectTarget == 
    IF fault # "none" THEN fault ELSE IF dbExists THEN "ok" ELSE "nodb"

\* psycopg2.connect(dbname="postgres", ...)
ConnectAdmin == IF fault # "none" THEN fault ELSE "ok"

(***************************************************************************)
(* build_connection_from_env and _connect_with_database_creation.          *)
(***************************************************************************)
\* the caller invokes build_connection_from_env(prefix)
BeginConnect(c) ==
    /\ cpc' = [cpc EXCEPT ![c] = "env"]
    /\ cerr' = [cerr EXCEPT ![c] = NoError]
    /\ lastErr' = [lastErr EXCEPT ![c] = "none"]
    /\ targetAttempts' = [targetAttempts EXCEPT ![c] = 0]
    /\ adminAttempts' = [adminAttempts EXCEPT ![c] = 0]
    /\ createStmts' = [createStmts EXCEPT ![c] = 0]
    /\ swallowed' = [swallowed EXCEPT ![c] = FALSE]
    /\ UNCHANGED <<prefix, dbExists, fault, adminOpen, created, openConns>>

\* Load.py 185-200: read the five variables; ValueError naming every missing
\* one, or from int() when the port is not a number
ReadConfig(c) ==
    /\ cpc[c] = "env"
    /\ IF Missing(env, prefix) # <<>>
       THEN /\ cerr' = [cerr EXCEPT ![c] =
                  ValueError([i \in 1..Len(Missing(env, prefix)) |->
                                 EnvName(prefix, Missing(env, prefix)[i])])]
            /\ cpc' = [cpc EXCEPT ![c] = "raised"]
       ELSE IF ~IsIntText(env[EnvName(prefix, "PORT")])
       THEN /\ cerr' = [cerr EXCEPT ![c] = ValueError(<<>>)]
            /\ cpc' = [cpc EXCEPT ![c] = "raised"]
       ELSE /\ cpc' = [cpc EXCEPT ![c] = "first"]
            /\ UNCHANGED cerr
    /\ UNCHANGED <<env, prefix, dbExists, fault, lastErr, targetAttempts, adminAttempts,
                   adminOpen, createStmts, swallowed, created, openConns>>

\* Load.py 214-226: the first connection attempt; any failure whose message
\* does not say "does not exist" is re-raised
FirstAttempt(c) ==
    /\ cpc[c] = "first"
    /\ targetAttempts' = [targetAttempts EXCEPT ![c] = @ + 1]
    /\ IF ConnectTarget = "ok"
       THEN /\ cpc' = [cpc EXCEPT ![c] = "connected"]
            /\ openConns' = [openConns EXCEPT ![c] = @ + 1]
            /\ UNCHANGED <<cerr, lastErr>>
       ELSE IF SaysDoesNotExist(ConnectTarget)
       THEN /\ lastErr' = [lastErr EXCEPT ![c] = ConnectTarget]
            /\ cpc' = [cpc EXCEPT ![c] = "admin"]
            /\ UNCHANGED <<cerr, openConns>>
       ELSE /\ lastErr' = [lastErr EXCEPT ![c] = ConnectTarget]
            /\ cerr' = [cerr EXCEPT ![c] = OperationalError(ConnectTarget)]
            /\ cpc' = [cpc EXCEPT ![c] = "raised"]
            /\ UNCHANGED openConns
    /\ UNCHANGED <<env, prefix, dbExists, fault, adminAttempts, adminOpen, createStmts,
                   swallowed, created>>

\* Load.py 258-264 and 236-237: the administrative connection; when it
\* fails, last_error is raised from the failure
AdminConnect(c) ==
    /\ cpc[c] = "admin"
    /\ adminAttempts' = [adminAttempts EXCEPT ![c] = @ + 1]
    /\ IF ConnectAdmin = "ok"
       THEN /\ adminOpen' = [adminOpen EXCEPT ![c] = TRUE]
            /\ cpc' = [cpc EXCEPT ![c] = "create"]
            /\ UNCHANGED cerr
       ELSE /\ cerr' = [cerr EXCEPT ![c] =
                  [OperationalError(lastErr[c]) EXCEPT !.chained = TRUE]]
            /\ cpc' = [cpc EXCEPT ![c] = "raised"]
            /\ UNCHANGED adminOpen
    /\ UNCHANGED <<env, prefix, dbExists, fault, lastErr, targetAttempts, createStmts,
                   swallowed, created, openConns>>

\* a CREATE DATABASE whose DuplicateDatabase error is not caught: it reaches
\* the caller's `except Exception`, which raises last_error
CreateDatabaseDuplicateRaises(c) ==
    /\ cpc[c] = "create"
    /\ createStmts' = [createStmts EXCEPT ![c] = @ + 1]
    /\ adminOpen' = [adminOpen EXCEPT ![c] = FALSE]
    /\ IF dbExists
       THEN /\ cerr' = [cerr EXCEPT ![c] =
                  [OperationalError(lastErr[c]) EXCEPT !.chained = TRUE]]
            /\ cpc' = [cpc EXCEPT ![c] = "raised"]
            /\ UNCHANGED <<dbExists, created>>
       ELSE /\ dbExists' = TRUE
            /\ created' = created + 1
            /\ cpc' = [cpc EXCEPT ![c] = "retry"]
            /\ UNCHANGED cerr
    /\ UNCHANGED <<env, prefix, fault, lastErr, targetAttempts, adminAttempts, swallowed,
                   openConns>>

\* Load.py 265-275: CREATE DATABASE; DuplicateDatabase is swallowed; the
\* administrative connection is closed either way
CreateDatabase(c) ==
    /\ cpc[c] = "create"
    /\ createStmts' = [createStmts EXCEPT ![c] = @ + 1]
    /\ adminOpen' = [adminOpen EXCEPT ![c] = FALSE]
    /\ IF dbExists
       THEN /\ swallowed' = [swallowed EXCEPT ![c] = TRUE]
            /\ UNCHANGED <<dbExists, created>>
       ELSE /\ dbExists' = TRUE
            /\ created' = created + 1
            /\ UNCHANGED swallowed
    /\ cpc' = [cpc EXCEPT ![c] = "retry"]
    /\ UNCHANGED <<env, prefix, fault, cerr, lastErr, targetAttempts, adminAttempts,
                   openConns>>

\* Load.py 239-245: the one retry of the original connection
RetryAttempt(c) ==
    /\ cpc[c] = "retry"
    /\ targetAttempts' = [targetAttempts EXCEPT ![c] = @ + 1]
    /\ IF ConnectTarget = "ok"
       THEN /\ cpc' = [cpc EXCEPT ![c] = "connected"]
            /\ openConns' = [openConns EXCEPT ![c] = @ + 1]
            /\ UNCHANGED cerr
       ELSE /\ cerr' = [cerr EXCEPT ![c] = OperationalError(ConnectTarget)]
            /\ cpc' = [cpc EXCEPT ![c] = "raised"]
            /\ UNCHANGED openConns
    /\ UNCHANGED <<env, prefix, dbExists, fault, lastErr, adminAttempts, adminOpen,
                   createStmts, swallowed, created>>

(***************************************************************************)
(* Callers that connect concurrently (separate runs against one server).   *)
(***************************************************************************)
Callers == {"a", "b"}

CallConnect(c) ==
    /\ cpc[c] = "idle"
    /\ BeginConnect(c)
    /\ UNCHANGED env

\* no connection call made yet
NoCalls ==
    /\ cpc = [c \in Callers |-> "idle"]
    /\ cerr = [c \in Callers |-> NoError]
    /\ lastErr = [c \in Callers |-> "none"]
    /\ targetAttempts = [c \in Callers |-> 0]
    /\ adminAttempts = [c \in Callers |-> 0]
    /\ adminOpen = [c \in Callers |-> FALSE]
    /\ createStmts = [c \in Callers |-> 0]
    /\ swallowed = [c \in Callers |-> FALSE]
    /\ created = 0
    /\ openConns = [c \in Callers |-> 0]

\* the connection part at rest, with the demo defaults in the environment
IdleConnect ==
    /\ env = [n \in EnvNames |-> Unset]
    /\ prefix = "POSTGRES"
    /\ dbExists = TRUE
    /\ fault = "none"
    /\ NoCalls


(***************************************************************************)
(* Extract.py: the datasets, the API and the CSV cache.                    *)
(***************************************************************************)
\* Extract.py API_ENDPOINTS, in dict order
Datasets == <<"orders", "order_items", "customers">>
DatasetSet == {Datasets[i] : i \in 1..Len(Datasets)}

\* a DataFrame column by name
ColIndex(frame, name) == CHOOSE i \in 1..Len(frame.cols) : frame.cols[i].name = name
Cell(frame, row, name) == row[ColIndex(frame, name)]

int64(name) == [name |-> name, dtype |-> "int64"]
float64(name) == [name |-> name, dtype |-> "float64"]
object(name) == [name |-> name, dtype |-> "object"]

\* pd.DataFrame(response.json()) for what the API serves now. Money is in
\* cents and discounts are in tenths.
ApiFrame(name) ==
    CASE name = "orders" ->
            [cols |-> <<int64("order_id"), int64("customer_id"), object("order_date")>>,
             rows |-> << <<Num(1), Num(10), Str("2016-01-01")>>,
                         <<Num(2), Num(11), Str("n/a")>> >>]
      [] name = "order_items" ->
            [cols |-> <<int64("order_id"), int64("quantity"), int64("list_price"),
                        int64("discount")>>,
             rows |-> << <<Num(1), Num(2), Num(1000), Num(1)>>,
                         <<Num(1), Num(1), Num(500), Num(0)>> >>]
      [] name = "customers" ->
            [cols |-> <<int64("customer_id"), object("first_name"), object("zip_code")>>,
             rows |-> << <<Num(10), Str("Ann"), Str("07")>> >>]

\* what the API served when an earlier run wrote the cache
StaleFrame(name) ==
    CASE name = "orders" ->
            [cols |-> <<int64("order_id"), int64("customer_id"), object("order_date")>>,
             rows |-> << <<Num(1), Num(10), Str("2016-01-01")>> >>]
      [] name = "order_items" ->
            [cols |-> <<int64("order_id"), int64("quantity"), int64("list_price"),
                        int64("discount")>>,
             rows |-> << <<Num(1), Num(1), Num(500), Num(0)>> >>]
      [] name = "customers" ->
            [cols |-> <<int64("customer_id"), object("first_name"), object("zip_code")>>,
             rows |-> << <<Num(10), Str("Ann"), Str("07")>>,
                         <<Num(11), Str("Bob"), None>> >>]

\* no file at the cache path
NoFile == [exists |-> FALSE, header |-> <<>>, lines |-> <<>>]

\* the text of a cell in a CSV file
CsvField(value) ==
    CASE value.k = "num" -> ToString(value.n)
      [] value.k \in {"str", "Timestamp"} -> value.s
      [] OTHER -> ""

\* DataFrame.to_csv(path, index=False)
ToCsv(frame) ==
    [exists |-> TRUE,
     header |-> [i \in 1..Len(frame.cols) |-> frame.cols[i].name],
     lines |-> [r \in 1..Len(frame.rows) |->
                  [i \in 1..Len(frame.cols) |-> CsvField(frame.rows[r][i])]]]

\* the numbers whose numerals occur in the files
Numbers == {0, 1, 2, 7, 10, 11, 500, 1000}
IsNumeral(text) == text = "07" \/ \E x \in Numbers : ToString(x) = text
NumeralValue(text) ==
    IF text = "07" THEN 7 ELSE CHOOSE x \in Numbers : ToString(x) = text

\* pd.read_csv's type inference for one column of fields
CsvDtype(fields) ==
    IF \A i \in 1..Len(fields) : fields[i] = "" \/ IsNumeral(fields[i])
    THEN (IF \E i \in 1..Len(fields) : fields[i] = "" THEN "float64"
          ELSE IF Len(fields) = 0 THEN "object" ELSE "int64")
    ELSE "object"

\* pd.read_csv(path): an empty field is NaN, a column of numerals is numeric,
\* any other column holds strings
ReadCsv(file) ==
    LET column(i) == [r \in 1..Len(file.lines) |-> file.lines[r][i]]
        dtype(i) == CsvDtype(column(i))
    IN  [cols |-> [i \in 1..Len(file.header) |->
                      [name |-> file.header[i], dtype |-> dtype(i)]],
         rows |-> [r \in 1..Len(file.lines) |->
                      [i \in 1..Len(file.header) |->
                          IF file.lines[r][i] = "" THEN NaN
                          ELSE IF dtype(i) = "object" THEN Str(file.lines[r][i])
                          ELSE Num(NumeralValue(file.lines[r][i]))]]]

\* no DataFrame
NoFrame == [cols |-> <<>>, rows |-> <<>>]

\* how a request can end: a response with JSON, a RequestException (no
\* connection, timeout, HTTP error status), or a response whose body is not
\* JSON
NetOutcomes == {"ok", "neterr", "badjson"}

\* a fetch that raises on a network failure without looking for a cache
FetchDatasetNoFallback(name, net, file) ==
    CASE net = "ok" ->
            [raised |-> "none", frame |-> ApiFrame(name), file |-> ToCsv(ApiFrame(name))]
      [] net = "neterr" ->
            [raised |-> "RuntimeError", frame |-> NoFrame, file |-> file]
      [] net = "badjson" ->
            [raised |-> "JSONDecodeError", frame |-> NoFrame, file |-> file]

\* a fetch that removes the cache file when the response cannot be decoded
FetchDatasetDropsCache(name, net, file) ==
    CASE net = "ok" ->
            [raised |-> "none", frame |-> ApiFrame(name), file |-> ToCsv(ApiFrame(name))]
      [] net = "neterr" ->
            IF file.exists
            THEN [raised |-> "none", frame |-> ReadCsv(file), file |-> file]
            ELSE [raised |-> "RuntimeError", frame |-> NoFrame, file |-> file]
      [] net = "badjson" ->
            [raised |-> "JSONDecodeError", frame |-> NoFrame, file |-> NoFile]

\* Extract.py _fetch_dataset: what it raises, the DataFrame it returns and
\* the cache file it leaves
FetchDataset(name, net, file) ==
    CASE net = "ok" ->
            [raised |-> "none", frame |-> ApiFrame(name), file |-> ToCsv(ApiFrame(name))]
      [] net = "neterr" ->
            IF file.exists
            THEN [raised |-> "none", frame |-> ReadCsv(file), file |-> file]
            ELSE [raised |-> "RuntimeError", frame |-> NoFrame, file |-> file]
      [] net = "badjson" ->
            [raised |-> "JSONDecodeError", frame |-> NoFrame, file |-> file]

(***************************************************************************)
(* Transform.py.                                                           *)
(***************************************************************************)
DateColumns == {"order_date", "required_date", "shipped_date"}
DateTexts == {"2016-01-01"}

\* pd.to_datetime(..., errors="coerce") on one value
ToDatetime(value) ==
    CASE value.k = "str" /\ value.s \in DateTexts -> Timestamp(value.s)
      [] value.k = "Timestamp" -> value
      [] value.k = "num" -> Timestamp("1970-01-01")
      [] OTHER -> NaT

\* Transform.py _prepare_orders
PrepareOrders(orders) ==
    [cols |-> [i \in 1..Len(orders.cols) |->
                  IF orders.cols[i].name \in DateColumns
                  THEN [name |-> orders.cols[i].name, dtype |-> "datetime64[ns]"]
                  ELSE orders.cols[i]],
     rows |-> [r \in 1..Len(orders.rows) |->
                  [i \in 1..Len(orders.cols) |->
                      IF orders.cols[i].name \in DateColumns
                      THEN ToDatetime(orders.rows[r][i])
                      ELSE orders.rows[r][i]]]]

\* a line total that leaves the discount out
LineTotalNoDiscount(items, row) ==
    LET q == Cell(items, row, "quantity")
        p == Cell(items, row, "list_price")
    IN  IF IsNa(q) \/ IsNa(p) THEN NaN ELSE Num(q.n * p.n * 10)

\* Transform.py 43-47: quantity * list_price * (1 - discount), in tenths of
\* a cent; NaN when any factor is missing
LineTotal(items, row) ==
    LET q == Cell(items, row, "quantity")
        p == Cell(items, row, "list_price")
        d == Cell(items, row, "discount")
    IN  IF IsNa(q) \/ IsNa(p) \/ IsNa(d)
        THEN NaN
        ELSE Num(q.n * p.n * (10 - d.n))

\* the elements of a set of integers in ascending order
RECURSIVE Ascending(_)
Ascending(S) ==
    IF S = {}
    THEN <<>>
    ELSE LET m == CHOOSE x \in S : \A y \in S : x <= y
         IN  <<m>> \o Ascending(S \ {m})

\* the sum of the numbers among vs[1..n], NaN skipped
RECURSIVE SumSkipNa(_, _)
SumSkipNa(vs, n) ==
    IF n = 0
    THEN 0
    ELSE SumSkipNa(vs, n - 1) + (IF IsNa(vs[n]) THEN 0 ELSE vs[n].n)

\* Transform.py 49-53: groupby("order_id")["line_total"].sum(), one row per
\* order id in ascending order
OrderTotals(items) ==
    LET ids == {Cell(items, items.rows[r], "order_id").n :
                   r \in {x \in 1..Len(items.rows) :
                             ~IsNa(Cell(items, items.rows[x], "order_id"))}}
        keys == Ascending(ids)
        rowsOf(id) == SelectSeq(items.rows,
                          LAMBDA row : Cell(items, row, "order_id") = Num(id))
        totals(id) == [r \in 1..Len(rowsOf(id)) |-> LineTotal(items, rowsOf(id)[r])]
    IN  [cols |-> <<int64("order_id"), float64("order_total")>>,
         rows |-> [i \in 1..Len(keys) |->
                      <<Num(keys[i]),
                        Num(SumSkipNa(totals(keys[i]), Len(totals(keys[i]))))>>]]

\* a sequence without its i-th element
Without(seq, i) == SubSeq(seq, 1, i - 1) \o SubSeq(seq, i + 1, Len(seq))

\* the concatenation of the sequences seqs[1..n]
RECURSIVE Concat(_, _)
Concat(seqs, n) == IF n = 0 THEN <<>> ELSE Concat(seqs, n - 1) \o seqs[n]

\* left.merge(right, on=key, how="left"): every left row, in order, joined
\* with each right row of the same key, or with NaN when there is none. The
\* frames modelled share no column but the key, so no suffix is applied.
MergeLeft(left, right, key) ==
    LET rk == ColIndex(right, key)
        matches(row) == SelectSeq(right.rows,
                            LAMBDA other : other[rk] = Cell(left, row, key))
        blank == [i \in 1..(Len(right.cols) - 1) |-> NaN]
        joined(row) ==
            IF matches(row) = <<>>
            THEN << row \o blank >>
            ELSE [m \in 1..Len(matches(row)) |-> row \o Without(matches(row)[m], rk)]
        complete == \A r \in 1..Len(left.rows) : matches(left.rows[r]) # <<>>
        widened(col) == IF col.dtype = "int64" /\ ~complete THEN float64(col.name) ELSE col
    IN  [cols |-> left.cols \o
                  [i \in 1..(Len(right.cols) - 1) |-> widened(Without(right.cols, rk)[i])],
         rows |-> Concat([r \in 1..Len(left.rows) |-> joined(left.rows[r])],
                         Len(left.rows))]

\* a dict entry
Entry(name, frame) == [name |-> name, frame |-> frame]

\* Transform.py transform_dataframes: the dict {"orders", "order_summary"}
Transform(data) ==
    LET orders == PrepareOrders(data["orders"])
        summary == MergeLeft(MergeLeft(orders, OrderTotals(data["order_items"]), "order_id"),
                             data["customers"], "customer_id")
    IN  <<Entry("orders", orders), Entry("order_summary", summary)>>


(***************************************************************************)
(* Load.py set_postgres_env.                                               *)
(***************************************************************************)
\* postgres_env.py pos_POSTGRES_ENV_DEFAULTS
Defaults ==
    [n \in {EnvName("POSTGRES", key) : key \in KeySet} |->
        CASE n[2] = "USER" -> "etl_user"
          [] n[2] = "PASSWORD" -> "etl_password"
          [] n[2] = "HOST" -> "127.0.0.1"
          [] n[2] = "PORT" -> "5432"
          [] n[2] = "DATABASE" -> "etl_db"]

\* vars_map=None
NoVarsMap == [n \in {} |-> ""]

\* Load.py 47-49: the defaults, overridden by vars_map
EnvMapping(varsMap) ==
    [n \in DOMAIN Defaults \cup DOMAIN varsMap |->
        IF n \in DOMAIN varsMap THEN varsMap[n] ELSE Defaults[n]]

\* a test `os.getenv(key) is None`, which leaves empty variables empty
AppliedOnlyUnset(e, varsMap, overwrite) ==
    {n \in DOMAIN EnvMapping(varsMap) : overwrite \/ e[n] = Unset}

\* Load.py 51-56: the variables set_postgres_env writes (the keys of `applied`)
Applied(e, varsMap, overwrite) ==
    {n \in DOMAIN EnvMapping(varsMap) : overwrite \/ IsMissing(e[n])}

\* Load.py set_postgres_env: os.environ after the call
SetPostgresEnv(e, varsMap, overwrite) ==
    [n \in DOMAIN e |->
        IF n \in Applied(e, varsMap, overwrite) THEN EnvMapping(varsMap)[n] ELSE e[n]]

\* Load.py 51-56: the dict `applied` that set_postgres_env returns
AppliedDict(e, varsMap, overwrite) ==
    [n \in Applied(e, varsMap, overwrite) |-> EnvMapping(varsMap)[n]]

\* a call set_postgres_env(varsMap, overwrite=overwrite)
CallSetPostgresEnv(varsMap, overwrite) ==
    /\ envBefore' = env
    /\ applied' = AppliedDict(env, varsMap, overwrite)
    /\ env' = SetPostgresEnv(env, varsMap, overwrite)
    /\ setCalls' = setCalls + 1
    /\ setArg' = [varsMap |-> varsMap, overwrite |-> overwrite]

(***************************************************************************)
(* main.py run_pipeline.                                                   *)
(***************************************************************************)
\* the run is the caller "a" of build_connection_from_env
Run == "a"

Raised(type) == [NoError EXCEPT !.type = type]

\* connection.close() left out
CloseForgotten(c) == UNCHANGED openConns

\* connection.close()
Close(c) == openConns' = [openConns EXCEPT ![c] = @ - 1]

\* an extract step whose error is recorded while the run goes on to the
\* load step
PipeFetchErrorNotFatal ==
    /\ ppc = "extract"
    /\ \E net \in NetOutcomes :
          LET name == Datasets[epos]
              r == FetchDataset(name, net, cache[name])
          IN  /\ fetched' = [fetched EXCEPT ![name] =
                                [net |-> net, hadCache |-> cache[name].exists]]
              /\ cache' = [cache EXCEPT ![name] = r.file]
              /\ IF r.raised = "none"
                 THEN /\ extracted' = [extracted EXCEPT ![name] = r.frame]
                      /\ epos' = epos + 1
                      /\ ppc' = IF epos = Len(Datasets) THEN "transform" ELSE "extract"
                      /\ UNCHANGED perr
                 ELSE /\ perr' = Raised(r.raised)
                      /\ ppc' = "setenv"
                      /\ UNCHANGED <<extracted, epos>>
    /\ UNCHANGED <<transformed, acquired, loadVars, connVars>>

\* Extract.py 37-38: one iteration of extract_all's loop, a RuntimeError or a
\* JSON error ending the run
PipeFetch ==
    /\ ppc = "extract"
    /\ \E net \in NetOutcomes :
          LET name == Datasets[epos]
              r == FetchDataset(name, net, cache[name])
          IN  /\ fetched' = [fetched EXCEPT ![name] =
                                [net |-> net, hadCache |-> cache[name].exists]]
              /\ cache' = [cache EXCEPT ![name] = r.file]
              /\ IF r.raised = "none"
                 THEN /\ extracted' = [extracted EXCEPT ![name] = r.frame]
                      /\ epos' = epos + 1
                      /\ ppc' = IF epos = Len(Datasets) THEN "transform" ELSE "extract"
                      /\ UNCHANGED perr
                 ELSE /\ perr' = Raised(r.raised)
                      /\ ppc' = "raised"
                      /\ UNCHANGED <<extracted, epos>>
    /\ UNCHANGED <<transformed, acquired, loadVars, connVars>>

\* main.py 33: transform_dataframes(extracted)
PipeTransform ==
    /\ ppc = "transform"
    /\ transformed' = Transform(extracted)
    /\ ppc' = "setenv"
    /\ UNCHANGED <<cache, extracted, fetched, epos, perr, acquired, loadVars, connVars>>

\* main.py 37-40: set_postgres_env(), then build_connection_from_env() is called
PipeSetEnv ==
    /\ ppc = "setenv"
    /\ CallSetPostgresEnv(NoVarsMap, FALSE)
    /\ BeginConnect(Run)
    /\ ppc' = "build"
    /\ UNCHANGED <<cache, extracted, fetched, epos, perr, transformed, acquired, loadVars>>

\* an `except ValueError` branch that prints and does not return: the
\* unbound `connection` is used next
PipeConfigErrorFallsThrough ==
    /\ ppc = "build"
    /\ cpc[Run] = "raised"
    /\ cerr[Run].type = "ValueError"
    /\ perr' = Raised("UnboundLocalError")
    /\ ppc' = "raised"
    /\ UNCHANGED <<cache, extracted, fetched, epos, transformed, acquired, loadVars,
                   connVars>>

\* main.py 41-46: ValueError from build_connection_from_env: the load step is
\* skipped and the run returns
PipeConfigError ==
    /\ ppc = "build"
    /\ cpc[Run] = "raised"
    /\ cerr[Run].type = "ValueError"
    /\ ppc' = "done"
    /\ UNCHANGED <<cache, extracted, fetched, epos, perr, transformed, acquired, loadVars,
                   connVars>>

\* main.py 40: any other exception of build_connection_from_env goes through
PipeConnectRaises ==
    /\ ppc = "build"
    /\ cpc[Run] = "raised"
    /\ cerr[Run].type # "ValueError"
    /\ perr' = cerr[Run]
    /\ ppc' = "raised"
    /\ UNCHANGED <<cache, extracted, fetched, epos, transformed, acquired, loadVars,
                   connVars>>

\* main.py 48-55: check_connection; on failure close and return, else call
\* load_dataframes(connection, transformed)
PipeProbe ==
    /\ ppc = "build"
    /\ cpc[Run] = "connected"
    /\ acquired' = acquired + 1
    /\ \E ok \in BOOLEAN :
          IF ok
          THEN /\ BeginLoad(transformed)
               /\ calls' = calls + 1
               /\ prevOk' = FALSE
               /\ ppc' = "load"
               /\ UNCHANGED openConns
          ELSE /\ Close(Run)
               /\ ppc' = "done"
               /\ UNCHANGED loadVars
    /\ UNCHANGED <<cache, extracted, fetched, epos, perr, transformed>>
    /\ UNCHANGED <<env, prefix, dbExists, fault, cpc, cerr, lastErr, targetAttempts,
                   adminAttempts, adminOpen, createStmts, swallowed, created>>

\* main.py 56-61: the load returned; finally close; command_overview calls
\* set_postgres_env and opens its own connection
PipeLoadReturned ==
    /\ ppc = "load"
    /\ lpc = "returned"
    /\ Close(Run)
    /\ CallSetPostgresEnv(NoVarsMap, FALSE)
    /\ cpc' = [cpc EXCEPT ![Run] = "env"]
    /\ cerr' = [cerr EXCEPT ![Run] = NoError]
    /\ lastErr' = [lastErr EXCEPT ![Run] = "none"]
    /\ targetAttempts' = [targetAttempts EXCEPT ![Run] = 0]
    /\ adminAttempts' = [adminAttempts EXCEPT ![Run] = 0]
    /\ createStmts' = [createStmts EXCEPT ![Run] = 0]
    /\ swallowed' = [swallowed EXCEPT ![Run] = FALSE]
    /\ ppc' = "overview"
    /\ UNCHANGED <<prefix, dbExists, fault, adminOpen, created>>
    /\ UNCHANGED <<cache, extracted, fetched, epos, perr, transformed, acquired, loadVars>>

\* main.py 57-58: the load raised; finally close; the exception goes through
PipeLoadRaised ==
    /\ ppc = "load"
    /\ lpc = "raised"
    /\ Close(Run)
    /\ perr' = Raised(result)
    /\ ppc' = "raised"
    /\ UNCHANGED <<cache, extracted, fetched, epos, transformed, acquired, loadVars>>
    /\ UNCHANGED <<env, prefix, dbExists, fault, cpc, cerr, lastErr, targetAttempts,
                   adminAttempts, adminOpen, createStmts, swallowed, created>>

\* postgres_env.py 26: build_connection_from_env raises inside
\* postgres_connection, before the try
PipeOverviewConnectRaises ==
    /\ ppc = "overview"
    /\ cpc[Run] = "raised"
    /\ perr' = cerr[Run]
    /\ ppc' = "raised"
    /\ UNCHANGED <<cache, extracted, fetched, epos, transformed, acquired, loadVars,
                   connVars>>

\* main.py 109-126 and postgres_env.py 27-30: the overview's queries, which
\* only read; the connection is closed whether or not they raise
PipeOverviewRead ==
    /\ ppc = "overview"
    /\ cpc[Run] = "connected"
    /\ acquired' = acquired + 1
    /\ Close(Run)
    /\ \E ok \in BOOLEAN :
          /\ ppc' = IF ok THEN "done" ELSE "raised"
          /\ perr' = IF ok THEN perr ELSE Raised("DatabaseError")
    /\ UNCHANGED <<cache, extracted, fetched, epos, transformed, loadVars>>
    /\ UNCHANGED <<env, prefix, dbExists, fault, cpc, cerr, lastErr, targetAttempts,
                   adminAttempts, adminOpen, createStmts, swallowed, created>>

\* the server stops accepting connections while the pipeline runs
ServerGoesDown ==
    /\ ppc \notin {"done", "raised"}
    /\ fault = "none"
    /\ fault' = "unreachable"
    /\ UNCHANGED <<env, prefix, dbExists, cpc, cerr, lastErr, targetAttempts, adminAttempts,
                   adminOpen, createStmts, swallowed, created, openConns>>
    /\ UNCHANGED <<loadVars, pipeVars>>

\* run_pipeline is inside build_connection_from_env
Connecting == ppc \in {"build", "overview"}

\* run_pipeline is inside load_dataframes
Loading == ppc = "load"

(***************************************************************************)
(* Initial states.                                                         *)
(***************************************************************************)
\* no run of the pipeline
IdlePipeline ==
    /\ cache = [n \in DatasetSet |-> NoFile]
    /\ extracted = [n \in DatasetSet |-> NoFrame]
    /\ fetched = [n \in DatasetSet |-> [net |-> "none", hadCache |-> FALSE]]
    /\ epos = 1
    /\ ppc = "idle"
    /\ perr = NoError
    /\ transformed = <<>>
    /\ acquired = 0

\* no command running, set_postgres_env not called
IdleCli ==
    /\ cmd = "none"
    /\ clipc = "idle"
    /\ envBefore = env
    /\ applied = <<>>
    /\ setCalls = 0
    /\ setArg = [varsMap |-> NoVarsMap, overwrite |-> FALSE]

\* environments a run may start in: the four text variables alike, the
\* port unset, empty, a number or not a number
PipelineEnvs ==
    {[n \in EnvNames |->
         IF n[1] # "POSTGRES" THEN Unset ELSE IF n[2] = "PORT" THEN port ELSE text] :
     text \in EnvValues("USER"), port \in EnvValues("PORT")}

\* what an earlier run left in the database
LeftoverStore ==
    [t \in TableNames |->
        IF t = "orders"
        THEN [exists |-> TRUE,
              cols |-> <<[name |-> "order_id", type |-> "BIGINT"]>>,
              rows |-> << <<Num(7)>> >>]
        ELSE NoTable]

InitPipeline ==
    /\ cache \in [DatasetSet -> {NoFile} \cup {ToCsv(StaleFrame(n)) : n \in DatasetSet}]
    /\ \A n \in DatasetSet : cache[n] \in {NoFile, ToCsv(StaleFrame(n))}
    /\ extracted = [n \in DatasetSet |-> NoFrame]
    /\ fetched = [n \in DatasetSet |-> [net |-> "none", hadCache |-> FALSE]]
    /\ epos = 1
    /\ ppc = "extract"
    /\ perr = NoError
    /\ transformed = <<>>
    /\ acquired = 0
    /\ env \in PipelineEnvs
    /\ prefix = "POSTGRES"
    /\ dbExists \in BOOLEAN
    /\ fault \in Faults
    /\ NoCalls
    /\ store \in {[t \in TableNames |-> NoTable], LeftoverStore}
    /\ dbExists \/ store = [t \in TableNames |-> NoTable]
    /\ IdleLoad
    /\ IdleCli

(***************************************************************************)
(* Callers connecting concurrently.                                        *)
(***************************************************************************)
InitConnect ==
    /\ prefix \in Prefixes
    /\ \E f \in [KeySet -> UNION {EnvValues(key) : key \in KeySet}] :
          /\ \A key \in KeySet : f[key] \in EnvValues(key)
          /\ env = [n \in EnvNames |-> IF n[1] = prefix THEN f[n[2]] ELSE Unset]
    /\ dbExists \in BOOLEAN
    /\ fault \in Faults
    /\ NoCalls
    /\ store = [t \in TableNames |-> NoTable]
    /\ IdleLoad
    /\ IdlePipeline
    /\ IdleCli

NextConnect ==
    \/ \E c \in Callers : CallConnect(c) /\ UNCHANGED notConnVars
    \/ \E c \in Callers : ReadConfig(c) /\ UNCHANGED notConnVars
    \/ \E c \in Callers : FirstAttempt(c) /\ UNCHANGED notConnVars
    \/ \E c \in Callers : AdminConnect(c) /\ UNCHANGED notConnVars
    \/ \E c \in Callers : CreateDatabase(c) /\ UNCHANGED notConnVars
    \/ \E c \in Callers : RetryAttempt(c) /\ UNCHANGED notConnVars

SpecConnect == InitConnect /\ [][NextConnect]_vars

(***************************************************************************)
(* load_dataframes called on an open connection.                           *)
(***************************************************************************)
NextLoad ==
    \/ CallLoad /\ UNCHANGED notLoadVars
    \/ LoadProbe /\ UNCHANGED notLoadVars
    \/ LoadEnsure /\ UNCHANGED notLoadVars
    \/ LoadEnsureRaises /\ UNCHANGED notLoadVars
    \/ LoadInsert /\ UNCHANGED notLoadVars
    \/ LoadInsertRaises /\ UNCHANGED notLoadVars
    \/ LoadCommit /\ UNCHANGED notLoadVars
    \/ LoadCommitRaises /\ UNCHANGED notLoadVars
    \/ LoadUnwind /\ UNCHANGED notLoadVars

InitLoad == LoadInputs /\ IdleConnect /\ IdlePipeline /\ IdleCli

SpecLoad == InitLoad /\ [][NextLoad]_vars

(***************************************************************************)
(* run_pipeline, from extraction to the overview.                          *)
(***************************************************************************)
NextPipeline ==
    \/ PipeFetch /\ UNCHANGED notPipeVars
    \/ PipeTransform /\ UNCHANGED notPipeVars
    \/ PipeSetEnv /\ UNCHANGED cliVars
    \/ Connecting /\ ReadConfig(Run) /\ UNCHANGED notConnVars
    \/ Connecting /\ FirstAttempt(Run) /\ UNCHANGED notConnVars
    \/ Connecting /\ AdminConnect(Run) /\ UNCHANGED notConnVars
    \/ Connecting /\ CreateDatabase(Run) /\ UNCHANGED notConnVars
    \/ Connecting /\ RetryAttempt(Run) /\ UNCHANGED notConnVars
    \/ PipeConfigError /\ UNCHANGED notPipeVars
    \/ PipeConnectRaises /\ UNCHANGED notPipeVars
    \/ PipeProbe /\ UNCHANGED notPipeVars
    \/ Loading /\ LoadProbe /\ UNCHANGED notLoadVars
    \/ Loading /\ LoadEnsure /\ UNCHANGED notLoadVars
    \/ Loading /\ LoadEnsureRaises /\ UNCHANGED notLoadVars
    \/ Loading /\ LoadInsert /\ UNCHANGED notLoadVars
    \/ Loading /\ LoadInsertRaises /\ UNCHANGED notLoadVars
    \/ Loading /\ LoadCommit /\ UNCHANGED notLoadVars
    \/ Loading /\ LoadCommitRaises /\ UNCHANGED notLoadVars
    \/ Loading /\ LoadUnwind /\ UNCHANGED notLoadVars
    \/ PipeLoadReturned /\ UNCHANGED cliVars
    \/ PipeLoadRaised /\ UNCHANGED notPipeVars
    \/ PipeOverviewConnectRaises /\ UNCHANGED notPipeVars
    \/ PipeOverviewRead /\ UNCHANGED notPipeVars
    \/ ServerGoesDown /\ UNCHANGED notPipeVars

SpecPipeline == InitPipeline /\ [][NextPipeline]_vars

(***************************************************************************)
(* main.py: the commands tables, preview and overview.                     *)
(***************************************************************************)
Commands == {"tables", "preview", "overview"}

\* main.py 79-80, 94-95, 108-109: _ensure_env_defaults(), then
\* postgres_connection() calls build_connection_from_env()
CliStart(c) ==
    /\ clipc = "idle"
    /\ cmd' = c
    /\ CallSetPostgresEnv(NoVarsMap, FALSE)
    /\ BeginConnect(Run)
    /\ clipc' = "connect"
    /\ UNCHANGED <<loadVars, pipeVars>>

\* the command is inside build_connection_from_env
CliConnecting == clipc = "connect"

\* postgres_env.py 26: build_connection_from_env raises, the command ends
CliConnectRaises ==
    /\ clipc = "connect"
    /\ cpc[Run] = "raised"
    /\ clipc' = "raised"
    /\ UNCHANGED <<cmd, setEnvVars, loadVars, pipeVars, connVars>>

\* main.py 81-87, 96-102, 110-126: list_tables, table_row_count and
\* table_preview only SELECT; postgres_env.py 29-30 closes the connection
\* whether or not a query raised
CliRead ==
    /\ clipc = "connect"
    /\ cpc[Run] = "connected"
    /\ Close(Run)
    /\ \E ok \in BOOLEAN : clipc' = IF ok THEN "done" ELSE "raised"
    /\ UNCHANGED <<cmd, setEnvVars, loadVars, pipeVars>>
    /\ UNCHANGED <<env, prefix, dbExists, fault, cpc, cerr, lastErr, targetAttempts,
                   adminAttempts, adminOpen, createStmts, swallowed, created>>

InitCli ==
    /\ env \in PipelineEnvs
    /\ prefix = "POSTGRES"
    /\ dbExists \in BOOLEAN
    /\ fault \in Faults
    /\ NoCalls
    /\ store \in {[t \in TableNames |-> NoTable], LeftoverStore}
    /\ dbExists \/ store = [t \in TableNames |-> NoTable]
    /\ IdleLoad
    /\ IdlePipeline
    /\ IdleCli

NextCli ==
    \/ \E c \in Commands : CliStart(c)
    \/ CliConnecting /\ ReadConfig(Run) /\ UNCHANGED notConnVars
    \/ CliConnecting /\ FirstAttempt(Run) /\ UNCHANGED notConnVars
    \/ CliConnecting /\ AdminConnect(Run) /\ UNCHANGED notConnVars
    \/ CliConnecting /\ CreateDatabase(Run) /\ UNCHANGED notConnVars
    \/ CliConnecting /\ RetryAttempt(Run) /\ UNCHANGED notConnVars
    \/ CliConnectRaises
    \/ CliRead

SpecCli == InitCli /\ [][NextCli]_vars

(***************************************************************************)
(* A caller of set_postgres_env: the same call repeated, then              *)
(* build_connection_from_env.                                              *)
(***************************************************************************)
\* vars_map: None, a host, or an empty host
VarsMaps ==
    {NoVarsMap} \cup
    {[n \in {EnvName("POSTGRES", "HOST")} |-> host] : host \in {"db.internal", ""}}

\* the first call set_postgres_env(vars_map, overwrite=overwrite)
SetEnvFirst ==
    /\ setCalls = 0
    /\ \E varsMap \in VarsMaps, overwrite \in BOOLEAN :
          CallSetPostgresEnv(varsMap, overwrite)
    /\ UNCHANGED <<prefix, dbExists, fault, cpc, cerr, lastErr, targetAttempts,
                   adminAttempts, adminOpen, createStmts, swallowed, created, openConns>>
    /\ UNCHANGED <<loadVars, pipeVars, cliVars>>

\* the same call once more
SetEnvAgain ==
    /\ setCalls \in 1..(MaxSetCalls - 1)
    /\ cpc[Run] = "idle"
    /\ CallSetPostgresEnv(setArg.varsMap, setArg.overwrite)
    /\ UNCHANGED <<prefix, dbExists, fault, cpc, cerr, lastErr, targetAttempts,
                   adminAttempts, adminOpen, createStmts, swallowed, created, openConns>>
    /\ UNCHANGED <<loadVars, pipeVars, cliVars>>

\* build_connection_from_env() is called
SetEnvThenBuild ==
    /\ setCalls >= 1
    /\ cpc[Run] = "idle"
    /\ BeginConnect(Run)
    /\ UNCHANGED <<env, setEnvVars, loadVars, pipeVars, cliVars>>

InitSetEnv ==
    /\ prefix = "POSTGRES"
    /\ \E f \in [KeySet -> UNION {EnvValues(key) : key \in KeySet}] :
          /\ \A key \in KeySet : f[key] \in EnvValues(key)
          /\ env = [n \in EnvNames |-> IF n[1] = prefix THEN f[n[2]] ELSE Unset]
    /\ dbExists = TRUE
    /\ fault = "none"
    /\ NoCalls
    /\ store = [t \in TableNames |-> NoTable]
    /\ IdleLoad
    /\ IdlePipeline
    /\ IdleCli

NextSetEnv ==
    \/ SetEnvFirst
    \/ SetEnvAgain
    \/ SetEnvThenBuild
    \/ ReadConfig(Run) /\ UNCHANGED notConnVars

SpecSetEnv == InitSetEnv /\ [][NextSetEnv]_vars

(***************************************************************************)
(* Properties of load_dataframes.                                          *)
(***************************************************************************)
\* the transaction's view after the mapping's entry e has been processed
AfterEntry(s, e) == InsertRows(EnsureTable(s, e.name, e.frame), e.name, e.frame)

\* C1: load_dataframes is all-or-nothing. While a call is in progress and
\* after it has raised, the committed store equals the store as it was when
\* the call began, and after a raise nothing of the transaction's writes is
\* left; the store differs from that only after the single commit, which
\* happens once the loop has gone through every table of the mapping.
C1_AllOrNothing ==
    /\ lpc \in {"probe", "ensure", "insert", "commit", "unwinding"} => store = pre
    /\ lpc = "raised" => store = pre /\ work = pre
    /\ store # pre => lpc = "returned" /\ idx = Len(tables) + 1

\* C1 witness: the call raised while inserting into the second table, after
\* the first table had been replaced inside the transaction
C1_Witness ==
    /\ lpc = "raised"
    /\ failAt = <<2, "insert">>
    /\ AfterEntry(pre, tables[1])[tables[1].name] # pre[tables[1].name]
    /\ Len(pre[tables[2].name].rows) > 0

\* C2: when the liveness probe of load_dataframes fails, the call raises
\* OperationalError, has issued no DROP, CREATE or INSERT, and the store is
\* as it was.
C2_ProbeFailureNoWrites ==
    (lpc # "probe" /\ ~probeOk) =>
        /\ lpc = "raised"
        /\ result = "OperationalError"
        /\ writes = 0
        /\ store = pre
        /\ work = pre

\* C2 witness: a failed probe of a call that had tables to load into a
\* store holding rows
C2_Witness ==
    /\ lpc = "raised"
    /\ ~probeOk
    /\ Len(tables) = 2
    /\ \E t \in TableNames : Len(store[t].rows) > 0

\* C3: loading the same mapping a second time, right after a load of it
\* that returned, leaves the store (tables, columns, rows) as the first
\* load left it.
C3_Idempotent == (lpc = "returned" /\ prevOk) => store = pre

\* C3 witness: the second of two successful loads of two tables, one of
\* them with rows, into a store the first load had changed
C3_Witness ==
    /\ lpc = "returned"
    /\ prevOk
    /\ calls = 2
    /\ Len(tables) = 2
    /\ \E i \in 1..2 : Len(store[tables[i].name].rows) = MaxRows
    /\ \E i \in 1..2 : ~IsEmpty(tables[i].frame) /\ Len(store[tables[i].name].rows) = 1

\* C4 as claimed: after a load that returned, every table of the mapping
\* holds as many rows as its DataFrame has.
C4_RowCountsEqual ==
    lpc = "returned" =>
        \A i \in 1..Len(tables) :
            Len(store[tables[i].name].rows) = Len(tables[i].frame.rows)

(***************************************************************************)
(* Properties of the configuration and of connecting.                      *)
(***************************************************************************)
\* the keys whose variable under the prefix is unset or empty
MissingKeySet == {key \in KeySet : env[EnvName(prefix, key)] \in {Unset, ""}}

\* C5: whenever some of the five variables are unset or empty,
\* build_connection_from_env raises ValueError, the error names exactly the
\* missing variables, each once, and no connection attempt has been made.
C5_MissingConfigNamed ==
    \A c \in Callers :
        (cpc[c] \notin {"idle", "env"} /\ MissingKeySet # {}) =>
            /\ cpc[c] = "raised"
            /\ cerr[c].type = "ValueError"
            /\ {cerr[c].names[i] : i \in 1..Len(cerr[c].names)}
                  = {EnvName(prefix, key) : key \in MissingKeySet}
            /\ Len(cerr[c].names) = Cardinality(MissingKeySet)
            /\ targetAttempts[c] = 0
            /\ adminAttempts[c] = 0

\* C5 witness: the call raised with HOST unset and PASSWORD empty, the
\* other three set
C5_Witness ==
    \E c \in Callers :
        /\ cpc[c] = "raised"
        /\ MissingKeySet = {"HOST", "PASSWORD"}
        /\ env[EnvName(prefix, "HOST")] = Unset
        /\ env[EnvName(prefix, "PASSWORD")] = ""

\* C7 as claimed: when the first connection attempt failed for any cause
\* other than a missing database, the fallback is not entered: no
\* administrative connection is attempted, no CREATE DATABASE is issued, and
\* the call raises the original error as it was.
C7_FallbackOnlyForMissingDatabase ==
    \A c \in Callers :
        lastErr[c] \notin {"none", "nodb"} =>
            /\ adminAttempts[c] = 0
            /\ createStmts[c] = 0
            /\ cpc[c] = "raised"
            /\ cerr[c] = OperationalError(lastErr[c])

\* C8: a connect call issues at most one CREATE DATABASE and makes at most
\* two connection attempts to the target database, and the database is
\* created at most once. When both callers found the database missing and
\* both calls have ended, the database was created exactly once, exactly one
\* caller had DuplicateDatabase swallowed, and each caller issued one CREATE
\* DATABASE, retried the connection once and is connected.
C8_CreateRace ==
    /\ created <= 1
    /\ \A c \in Callers : createStmts[c] <= 1 /\ targetAttempts[c] <= 2
    /\ ((\A c \in Callers : lastErr[c] = "nodb" /\ cpc[c] \in {"connected", "raised"}) =>
          /\ created = 1
          /\ Cardinality({c \in Callers : swallowed[c]}) = 1
          /\ \A c \in Callers :
                /\ cpc[c] = "connected"
                /\ cerr[c] = NoError
                /\ createStmts[c] = 1
                /\ targetAttempts[c] = 2)

\* C8 witness: both callers found the database missing, both ran the
\* fallback, and both calls have ended
C8_Witness ==
    /\ \A c \in Callers : lastErr[c] = "nodb" /\ cpc[c] = "connected"
    /\ \E c \in Callers : swallowed[c]
    /\ created = 1

C9_ConnectionsClosed ==
    /\ openConns[Run] <= 1
    /\ ppc \in {"done", "raised"} => openConns[Run] = 0 /\ ~adminOpen[Run]

\* C9 witness: the run ended because load_dataframes raised in the middle
\* of the load, on the connection the run had acquired
C9_Witness ==
    /\ ppc = "raised"
    /\ perr = Raised("LoadError")
    /\ failAt[1] = 2
    /\ acquired = 1

\* C10: for every dataset whose request failed with a network error: if its
\* cache file existed, the fetch did not raise and returned the content of
\* that file as read_csv reads it; if no cache file existed, the fetch
\* raised RuntimeError and returned nothing.
C10_CacheFallback ==
    \A name \in DatasetSet :
        fetched[name].net = "neterr" =>
            IF fetched[name].hadCache
            THEN /\ cache[name].exists
                 /\ extracted[name] = ReadCsv(cache[name])
                 /\ ~(ppc = "raised" /\ epos <= Len(Datasets) /\ Datasets[epos] = name)
            ELSE /\ ppc = "raised"
                 /\ perr = Raised("RuntimeError")
                 /\ Datasets[epos] = name
                 /\ extracted[name] = NoFrame

\* C10 witness: the request for orders failed and the stale cache was
\* returned, then the request for order_items failed with no cache
C10_Witness ==
    /\ fetched["orders"] = [net |-> "neterr", hadCache |-> TRUE]
    /\ extracted["orders"] = ReadCsv(ToCsv(StaleFrame("orders")))
    /\ extracted["orders"] # ApiFrame("orders")
    /\ fetched["order_items"] = [net |-> "neterr", hadCache |-> FALSE]
    /\ ppc = "raised"

\* C11: when run_pipeline ended on an extraction error (a dataset could not
\* be fetched and had no cache), nothing of the load step has happened: no
\* configuration read, no connection attempted or opened, no probe, no
\* statement issued, the store as it was, nothing transformed. And whenever
\* the run is connecting, probing or loading, every dataset has been
\* extracted and the transformation is complete.
C11_ExtractionErrorAborts ==
    /\ (ppc = "raised" /\ epos <= Len(Datasets)) =>
          /\ perr.type \in {"RuntimeError", "JSONDecodeError"}
          /\ cpc[Run] = "idle"
          /\ targetAttempts[Run] = 0
          /\ adminAttempts[Run] = 0
          /\ openConns[Run] = 0
          /\ acquired = 0
          /\ created = 0
          /\ lpc = "idle"
          /\ writes = 0
          /\ store = pre
          /\ transformed = <<>>
    /\ perr.type = "RuntimeError" => ppc = "raised" /\ epos <= Len(Datasets)
    /\ (cpc[Run] # "idle" \/ targetAttempts[Run] > 0 \/ adminAttempts[Run] > 0
            \/ openConns[Run] > 0 \/ acquired > 0 \/ lpc # "idle") =>
          /\ epos = Len(Datasets) + 1
          /\ \A name \in DatasetSet : extracted[name] # NoFrame
          /\ transformed = Transform(extracted)

\* C11 witness: orders was fetched, order_items failed with no cache, and
\* the run ended with the rows of an earlier run untouched
C11_Witness ==
    /\ ppc = "raised"
    /\ perr = Raised("RuntimeError")
    /\ epos = 2
    /\ fetched["order_items"] = [net |-> "neterr", hadCache |-> FALSE]
    /\ store = LeftoverStore

(***************************************************************************)
(* Properties of the commands.                                             *)
(***************************************************************************)
\* C12 as claimed: while and after a command tables, preview or overview
\* runs, the server is as it was: the target database has not been created
\* and no CREATE DATABASE was issued, and every table is as before.
C12_CommandsReadOnly ==
    clipc # "idle" =>
        /\ created = 0
        /\ createStmts[Run] = 0
        /\ store = pre

(***************************************************************************)
(* Order of the load.                                                      *)
(***************************************************************************)
\* TableSpec.dependsOn for the two tables of the load: order_summary holds
\* one row per order and refers to orders by order_id; orders refers to
\* neither. Load.py declares no dependency between tables.
DependsOn ==
    [t \in TableNames |-> IF t = "order_summary" THEN {"orders"} ELSE {}]

\* C13 as claimed: once rows of a table T of the mapping have been
\* inserted, every table of the mapping that T depends on was inserted at
\* an earlier position of the loop, whatever the order of the mapping.
C13_DependencyOrder ==
    lpc # "idle" =>
        \A j \in 1..Len(tables) :
            (j < idx /\ ~IsEmpty(tables[j].frame)) =>
                \A k \in 1..Len(tables) :
                    tables[k].name \in DependsOn[tables[j].name] => k < j

(***************************************************************************)
(* Identity columns.                                                       *)
(***************************************************************************)
\* IdentityColumn of the data model: the table stores generates store_id.
\* Load.py declares no identity column.
IdentityColumn == [t \in {"stores"} |-> "store_id"]

\* a dataset of n stores carrying the explicit ids 1..n
StoresFrames ==
    {[cols |-> <<int64("store_id")>>, rows |-> [i \in 1..n |-> <<Num(i)>>]] :
        n \in 0..MaxRows}

\* the value the database generates for a column left out of an INSERT: the
\* next value of the sequence of a SERIAL column, which a CREATE TABLE starts
\* at 1 and an INSERT with explicit values leaves alone; NULL for a column of
\* any other type, which has no default
NextGenerated(table, column) ==
    IF \E i \in 1..Len(table.cols) :
          table.cols[i].name = column /\ table.cols[i].type = "SERIAL PRIMARY KEY"
    THEN Num(1)
    ELSE None

\* load_dataframes(connection, {"stores": frame}) into a database that has,
\* or has not, a table stores
InitLoadStores ==
    /\ store \in [DOMAIN IdentityColumn -> InitialTables]
    /\ work = store
    /\ tables \in {<<[name |-> "stores", frame |-> f]>> : f \in StoresFrames}
    /\ idx = 1
    /\ lpc = "idle"
    /\ result = "none"
    /\ pre = store
    /\ writes = 0
    /\ probeOk = TRUE
    /\ prevOk = FALSE
    /\ calls = 0
    /\ failAt = <<0, "none">>
    /\ errText = <<>>
    /\ IdleConnect
    /\ IdlePipeline
    /\ IdleCli

SpecLoadStores == InitLoadStores /\ [][NextLoad]_vars

\* C14 as claimed: after a load that returned, the table stores holds the N
\* rows with ids 1..N and the next id generated for store_id is N + 1.
C14_SequenceRestored ==
    lpc = "returned" =>
        /\ store["stores"].rows = [i \in 1..Len(tables[1].frame.rows) |-> <<Num(i)>>]
        /\ NextGenerated(store["stores"], IdentityColumn["stores"])
              = Num(Len(store["stores"].rows) + 1)

(***************************************************************************)
(* A load whose insert failed.                                             *)
(***************************************************************************)
\* C15 as claimed: after a load that raised in an INSERT, every table of
\* the mapping holds zero rows.
C15_ZeroRowsAfterFailedInsert ==
    (lpc = "raised" /\ failAt[2] = "insert") =>
        \A i \in 1..Len(tables) : Len(store[tables[i].name].rows) = 0

\* C15 amended: after a load that raised in an INSERT, every table of the
\* mapping exists or not as before the call, with the columns and exactly
\* the rows it held before the call; it holds zero rows only if it held
\* none, or did not exist, before.
C15_PriorRowsAfterFailedInsert ==
    (lpc = "raised" /\ failAt[2] = "insert") =>
        \A i \in 1..Len(tables) :
            LET now == store[tables[i].name]
                was == pre[tables[i].name]
            IN  /\ now.exists = was.exists
                /\ now.cols = was.cols
                /\ now.rows = was.rows
                /\ Len(now.rows) = 0 <=> (~was.exists \/ was.rows = <<>>)

\* C15 witness: a first load filled both tables and returned, the second
\* raised in the INSERT of the second table after the first table had been
\* dropped, recreated and refilled, and the rows of the first load are there
C15_Witness ==
    /\ lpc = "raised"
    /\ failAt = <<2, "insert">>
    /\ calls = 2
    /\ prevOk
    /\ \A i \in 1..2 : Len(store[tables[i].name].rows) = MaxRows

(***************************************************************************)
(* The exception of a failed load.                                         *)
(***************************************************************************)
\* C16 as claimed: when load_dataframes raised because the DROP, CREATE or
\* INSERT of a table failed, the text of the exception the caller receives
\* contains the name of that table.
C16_ErrorNamesTable ==
    (lpc = "raised" /\ failAt[2] \in {"drop", "create", "insert"}) =>
        Contains(errText, <<tables[failAt[1]].name>>)

(***************************************************************************)
(* Properties of transform_dataframes.                                     *)
(***************************************************************************)
\* the line items of an order, as row numbers of the order_items dataset
ItemsOf(items, id) ==
    {r \in 1..Len(items.rows) : Cell(items, items.rows[r], "order_id") = id}

\* the sum over the line items R of quantity * list_price * (1 - discount),
\* in tenths of a cent
SumOfLines(items, R) ==
    LET amount(r) == Cell(items, items.rows[r], "quantity").n
                       * Cell(items, items.rows[r], "list_price").n
                       * (10 - Cell(items, items.rows[r], "discount").n)
        sum[S \in SUBSET R] ==
            IF S = {} THEN 0
            ELSE LET r == CHOOSE x \in S : TRUE IN amount(r) + sum[S \ {r}]
    IN  sum[R]

\* C17: once transform_dataframes has returned, order_summary has one row
\* for each row of orders, in order; the order_total of an order with line
\* items is the sum over its line items of quantity * list_price *
\* (1 - discount), and the order_total of an order without line items is
\* missing.
C17_OrderTotal ==
    transformed # <<>> =>
        LET orders == extracted["orders"]
            items == extracted["order_items"]
            summary == transformed[2].frame
        IN  /\ transformed[2].name = "order_summary"
            /\ Len(summary.rows) = Len(orders.rows)
            /\ \A r \in 1..Len(orders.rows) :
                  LET id == Cell(orders, orders.rows[r], "order_id")
                      total == Cell(summary, summary.rows[r], "order_total")
                  IN  /\ Cell(summary, summary.rows[r], "order_id") = id
                      /\ IF ItemsOf(items, id) = {}
                         THEN total = NaN
                         ELSE total = Num(SumOfLines(items, ItemsOf(items, id)))

\* C17 witness: order 1 with the items (2, 10.00, 0.1) and (1, 5.00, 0) has
\* the total 23.0, and order 2, which has no items, has a missing total
C17_Witness ==
    /\ transformed # <<>>
    /\ extracted["order_items"].rows =
          << <<Num(1), Num(2), Num(1000), Num(1)>>, <<Num(1), Num(1), Num(500), Num(0)>> >>
    /\ LET summary == transformed[2].frame
       IN  /\ Len(summary.rows) = 2
           /\ Cell(summary, summary.rows[1], "order_id") = Num(1)
           /\ Cell(summary, summary.rows[1], "order_total") = Num(23000)
           /\ Cell(summary, summary.rows[2], "order_id") = Num(2)
           /\ Cell(summary, summary.rows[2], "order_total") = NaN

(***************************************************************************)
(* Tables outside the mapping.                                             *)
(***************************************************************************)
\* the tables of the database that are no key of the mapping
Unmapped == DOMAIN store \ {tables[i].name : i \in 1..Len(tables)}

\* C18: from the call of load_dataframes on, at every statement and after
\* the commit or the rollback, every table that is no key of the mapping is
\* as it was before the call, in the database and in the transaction's view:
\* it exists or not as before, with the same columns and rows.
C18_OnlyMappedTablesChange ==
    lpc # "idle" =>
        \A t \in Unmapped : store[t] = pre[t] /\ work[t] = pre[t]

\* C18 witness: a load of one table returned and changed that table, and
\* the other table, left by an earlier run, holds its row
C18_Witness ==
    /\ lpc = "returned"
    /\ Len(tables) = 1
    /\ store[tables[1].name] # pre[tables[1].name]
    /\ \E t \in Unmapped : store[t].exists /\ Len(store[t].rows) = 1

(***************************************************************************)
(* Properties of set_postgres_env.                                         *)
(***************************************************************************)
\* the five POSTGRES_* variables
PostgresNames == {EnvName("POSTGRES", key) : key \in KeySet}

\* after a call with overwrite=False: no variable that was set and
\* non-empty has changed, and the returned dict holds exactly the variables
\* written, with the values written
SetEnvKeepsAndReports ==
    /\ \A n \in DOMAIN env : envBefore[n] \notin {Unset, ""} => env[n] = envBefore[n]
    /\ \A n \in DOMAIN applied :
          /\ envBefore[n] \in {Unset, ""}
          /\ env[n] = applied[n]
    /\ \A n \in DOMAIN env \ DOMAIN applied : env[n] = envBefore[n]
    /\ \A n \in PostgresNames : envBefore[n] \in {Unset, ""} => n \in DOMAIN applied

\* after a call with no vars_map and the default prefix,
\* build_connection_from_env reports no missing variable
SetEnvThenNoneMissing ==
    (setArg.varsMap = NoVarsMap /\ cerr[Run].type = "ValueError") =>
        cerr[Run].names = <<>>

\* C19 as claimed: after a call with overwrite=False, whatever vars_map is,
\* the variables set before are unchanged, the returned dict is what was
\* written, all five POSTGRES_* variables are non-empty, and a second call
\* has written nothing and returned an empty dict.
C19_SetEnvAsClaimed ==
    (setCalls >= 1 /\ ~setArg.overwrite) =>
        /\ SetEnvKeepsAndReports
        /\ \A n \in PostgresNames : env[n] \notin {Unset, ""}
        /\ setCalls >= 2 => applied = <<>> /\ env = envBefore
        /\ SetEnvThenNoneMissing

\* every value of vars_map is non-empty (vars_map=None has no value)
NoEmptyValue(varsMap) == \A n \in DOMAIN varsMap : varsMap[n] # ""

\* C19 amended: after a call with overwrite=False the variables set before
\* are unchanged and the returned dict is what was written; when vars_map is
\* None or has no empty value, all five POSTGRES_* variables are non-empty
\* and a second call with the same arguments has written nothing and
\* returned an empty dict; after a call without vars_map,
\* build_connection_from_env with the default prefix reports no missing
\* variable.
C19_SetEnvFillsMissing ==
    (setCalls >= 1 /\ ~setArg.overwrite) =>
        /\ SetEnvKeepsAndReports
        /\ NoEmptyValue(setArg.varsMap) =>
              /\ \A n \in PostgresNames : env[n] \notin {Unset, ""}
              /\ setCalls >= 2 => applied = <<>> /\ env = envBefore
        /\ SetEnvThenNoneMissing

\* C19 witness: HOST was unset, PASSWORD empty and USER set; two calls
\* without vars_map later HOST and PASSWORD hold the defaults, USER is as it
\* was, and build_connection_from_env found nothing missing
C19_Witness ==
    /\ setCalls = 2
    /\ setArg = [varsMap |-> NoVarsMap, overwrite |-> FALSE]
    /\ applied = <<>>
    /\ env[EnvName("POSTGRES", "HOST")] = "127.0.0.1"
    /\ env[EnvName("POSTGRES", "PASSWORD")] = "etl_password"
    /\ env[EnvName("POSTGRES", "USER")] = "custom"
    /\ env[EnvName("POSTGRES", "PORT")] = "5432"
    /\ cpc[Run] = "first"

(***************************************************************************)
(* The cache files.                                                        *)
(***************************************************************************)
\* C20: a step changes the cache file of a dataset only if it is the fetch
\* of that dataset and the request succeeded; a fetch that succeeded leaves
\* in the dataset's cache file the CSV text of the frame it returned; a
\* fetch that failed, with or without a cache file, leaves every cache file
\* as it was. And when extract_all has raised at dataset k, the cache file
\* of every dataset before k whose request succeeded holds the fetched
\* content.
C20_CacheWrittenBySuccessfulFetch ==
    /\ [][\A name \in DatasetSet :
            /\ cache'[name] # cache[name] =>
                  /\ ppc = "extract"
                  /\ Datasets[epos] = name
                  /\ fetched'[name].net = "ok"
            /\ (fetched'[name] # fetched[name] /\ fetched'[name].net = "ok") =>
                  /\ cache'[name] = ToCsv(extracted'[name])
                  /\ extracted'[name] = ApiFrame(name)
            /\ (fetched'[name] # fetched[name] /\ fetched'[name].net # "ok") =>
                  cache' = cache]_vars
    /\ [](ppc = "raised" /\ epos <= Len(Datasets) =>
            \A j \in 1..(epos - 1) :
                fetched[Datasets[j]].net = "ok" =>
                    cache[Datasets[j]] = ToCsv(ApiFrame(Datasets[j])))

\* C20 witness: orders was fetched and its stale cache rewritten, then the
\* request for order_items failed with no cache and extract_all raised; the
\* cache of customers is the stale one still
C20_Witness ==
    /\ ppc = "raised"
    /\ epos = 2
    /\ fetched["orders"] = [net |-> "ok", hadCache |-> TRUE]
    /\ cache["orders"] = ToCsv(ApiFrame("orders"))
    /\ cache["orders"] # ToCsv(StaleFrame("orders"))
    /\ fetched["order_items"] = [net |-> "neterr", hadCache |-> FALSE]
    /\ cache["order_items"] = NoFile
    /\ cache["customers"] = ToCsv(StaleFrame("customers"))

====
